---- MODULE Spec2Model ----
(***************************************************************************)
(* Model of src/dropbox_folders.py: the recursive folder scanner           *)
(* scan_folders_with_progress / walk_dir, the cancel button (do_cancel),   *)
(* and the part of main that follows the scan (save, log, summary).        *)
(*                                                                         *)
(* walk_dir is modelled as an explicit call stack of frames; one action    *)
(* per step of a frame, so that do_cancel can be interleaved between any   *)
(* two reads of cancel_state["cancel"].  OS faults (OSError raised by      *)
(* os.scandir, by the scandir iterator or by DirEntry.is_dir) are          *)
(* nondeterministic outcomes of the step that makes the call.              *)
(***************************************************************************)
EXTENDS Integers, Sequences, FiniteSets, TLC

VARIABLES
    IS_WINDOWS,      \* line 29
    use_long_paths,  \* main, lines 244-256
    base,            \* main line 220: the resolved root path (sequence of path tokens)
    dirs,            \* the file system: which nodes are real directories
    pc,              \* position of main
    cancel,          \* cancel_state["cancel"], line 267
    rows, skipped, found, last_update,   \* scan_folders_with_progress locals
    lbl_count, lbl_path,                 \* text shown by the progress window
    stack,           \* call stack of walk_dir frames
    outfile, logfile, messages,          \* what main wrote / showed
    \* history variables (not read by the program)
    faults,          \* faults raised so far
    entered,         \* nodes for which walk_dir was called
    listed,          \* nodes whose walk_dir passed line 158 (scandir attempted)
    fetched,         \* entries that passed the cancel check of line 165
    atCancel         \* snapshot taken when do_cancel ran

vars == <<IS_WINDOWS, use_long_paths, base, dirs, pc, cancel, rows, skipped, found,
          last_update, lbl_count, lbl_path, stack, outfile, logfile, messages,
          faults, entered, listed, fetched, atCancel>>

config == <<IS_WINDOWS, use_long_paths, base, dirs>>
hist == <<faults, entered, listed, fetched, atCancel>>

----------------------------------------------------------------------------
\* Bounds of the model

\* number of OSError faults the environment injects in one scan
MaxFaults == 1

\* number of nested walk_dir frames the interpreter allows before RecursionError
RecursionLimit == 3

----------------------------------------------------------------------------
\* The file-system universe: A{ B{ D{ E{G}, F } }, C }.  Every node exists as
\* a directory entry; `dirs` says which of them are directories (the others
\* are files or symlinks, for which is_dir(follow_symlinks=False) is False).

Root == "A"
Nodes == {"A", "B", "C", "D", "E", "F", "G"}

Children(n) ==
    CASE n = "A" -> <<"B", "C">>
      [] n = "B" -> <<"D">>
      [] n = "D" -> <<"E", "F">>
      [] n = "E" -> <<"G">>
      [] OTHER   -> <<>>

Parent(n) ==
    CASE n = "B" -> "A"
      [] n = "C" -> "A"
      [] n = "D" -> "B"
      [] n = "E" -> "D"
      [] n = "F" -> "D"
      [] n = "G" -> "E"
      [] OTHER   -> "A"

Range(s) == {s[i] : i \in 1..Len(s)}

\* the directory trees the scan is run on: each is closed under Parent (a
\* directory lives in a directory)
Trees == { {"A"},
           {"A", "C"},
           {"A", "B", "C", "D"},
           {"A", "B", "D", "E", "F"},
           {"A", "B", "C", "D", "E", "F", "G"} }

\* Root paths main can hand to the scan, as sequences of path tokens
PosixBase == <<"/", "A">>
DriveBase == <<"C:", "\\", "A">>
UncBase   == <<"\\", "\\", "srv", "\\", "sh", "\\", "A">>

\* platform, long-path option (lines 244-256; always False off Windows) and root
Platforms ==
    { [windows |-> FALSE, long |-> FALSE, base |-> PosixBase],
      [windows |-> TRUE,  long |-> FALSE, base |-> DriveBase],
      [windows |-> TRUE,  long |-> TRUE,  base |-> DriveBase],
      [windows |-> TRUE,  long |-> TRUE,  base |-> UncBase] }

----------------------------------------------------------------------------
\* errno values the code compares against
ENOENT == 2
EACCES == 13
\* e.winerror == 3
WINERROR_PATH_NOT_FOUND == 3

\* OSError values.  On Windows every OSError has a winerror attribute
\* (0 stands for None); elsewhere the attribute does not exist.
Errors ==
    IF IS_WINDOWS
    THEN { [has_winerror |-> TRUE, winerror |-> 3,    errno |-> 2,  msg |-> "path not found"],
           [has_winerror |-> TRUE, winerror |-> 2,    errno |-> 2,  msg |-> "file not found"],
           [has_winerror |-> TRUE, winerror |-> 5,    errno |-> 13, msg |-> "access denied"],
           [has_winerror |-> TRUE, winerror |-> 1117, errno |-> 5,  msg |-> "io error"] }
    ELSE { [has_winerror |-> FALSE, winerror |-> 0, errno |-> 2,  msg |-> "no such file"],
           [has_winerror |-> FALSE, winerror |-> 0, errno |-> 13, msg |-> "permission denied"],
           [has_winerror |-> FALSE, winerror |-> 0, errno |-> 5,  msg |-> "io error"] }

\* The OSErrors entry.is_dir(follow_symlinks=False) can raise (line 168):
\* DirEntry.is_dir catches FileNotFoundError itself and answers False, so only
\* the other errors reach the handler of line 170.
ProbeErrors == {e \in Errors : e.errno # ENOENT}

----------------------------------------------------------------------------
\* Pure helpers

StartsWith(s, p) == Len(s) >= Len(p) /\ SubSeq(s, 1, Len(p)) = p

\* to_long_path, lines 130-142
to_long_path(p, enable) ==
    IF IS_WINDOWS /\ enable
    THEN IF StartsWith(p, <<"\\", "\\", "?", "\\">>) THEN p
         ELSE IF StartsWith(p, <<"\\", "\\">>)
              THEN <<"\\", "\\", "?", "\\", "UNC">> \o Tail(p)
              ELSE <<"\\", "\\", "?", "\\">> \o p
    ELSE p

\* os.sep
Sep == IF IS_WINDOWS THEN "\\" ELSE "/"

\* DirEntry.path of entry `name` produced by os.scandir(scan_target)
EntryPath(scan_target, name) == scan_target \o <<Sep, name>>

\* Path.name
PathName(p) == p[Len(p)]

WinError3Reason == <<"WinError 3 (path not found) - likely placeholder/online-only or moved">>

\* the reason recorded by the per-entry handler, lines 170-175
ProbeReason(e) ==
    IF e.has_winerror /\ e.winerror = WINERROR_PATH_NOT_FOUND
    THEN WinError3Reason
    ELSE <<"is_dir failed: ", e.msg>>

ListReasonNoAccess(e) ==
    IF e.has_winerror /\ e.winerror = WINERROR_PATH_NOT_FOUND
    THEN WinError3Reason
    ELSE IF e.errno = ENOENT THEN <<"ENOENT (no such file or directory)">>
    ELSE <<"os error: ", e.msg>>

\* the reason recorded by the directory-level handler, lines 194-203
ListReason(e) ==
    IF e.has_winerror /\ e.winerror = WINERROR_PATH_NOT_FOUND
    THEN WinError3Reason
    ELSE IF e.errno = ENOENT THEN <<"ENOENT (no such file or directory)">>
    ELSE IF e.errno = EACCES THEN <<"EACCES (permission denied)">>
    ELSE <<"os error: ", e.msg>>

\* line 193
RecursionReason == <<"recursion error: ", "maximum recursion depth exceeded">>

\* row = ancestors + [name], line 179
NewRowNameOnly(ancestors, name) == <<name>>
NewRow(ancestors, name) == ancestors \o <<name>>

\* found += 1, line 181
NextFoundSame(f) == f
NextFound(f) == f + 1

\* row[-4:], line 186
Tail4(row) == IF Len(row) <= 4 THEN row ELSE SubSeq(row, Len(row) - 3, Len(row))

Max(S) == CHOOSE x \in S : \A y \in S : y <= x

\* max_levels, lines 66 / 109
MaxLevels(rs) == IF rs = <<>> THEN 1 ELSE Max({Len(rs[i]) : i \in 1..Len(rs)})

\* r + [""] * (max_levels - len(r)), lines 68 / 111
Pad(r, n) == r \o [i \in 1..(n - Len(r)) |-> ""]

\* norm_rows, lines 68 / 111
NormRows(rs) == [i \in 1..Len(rs) |-> Pad(rs[i], MaxLevels(rs))]

----------------------------------------------------------------------------
Top == stack[Len(stack)]
Depth == Len(stack)
FaultsLeft == Cardinality({f \in faults : f.at # "recursion"}) < MaxFaults

SetTop(f) == [stack EXCEPT ![Len(stack)] = f]
Pop == SubSeq(stack, 1, Len(stack) - 1)

\* walk_dir returns; when the outermost call returns, scan_folders_with_progress
\* returns (line 206) and main destroys the progress window (lines 280-284)
Return ==
    /\ stack' = Pop
    /\ pc' = IF Len(stack) = 1 THEN "scanned" ELSE pc

\* the labels of the progress window, which progress.destroy() (line 282)
\* takes down with it when the outermost walk_dir returns
LabelsAfterReturn ==
    IF Len(stack) = 1
    THEN lbl_count' = 0 /\ lbl_path' = <<>> /\ last_update' = 0
    ELSE UNCHANGED <<lbl_count, lbl_path, last_update>>

Init ==
    /\ \E c \in Platforms :
          /\ IS_WINDOWS = c.windows
          /\ use_long_paths = c.long
          /\ base = c.base
    /\ dirs \in Trees
    /\ pc = "start"
    /\ cancel = FALSE
    /\ rows = <<>> /\ skipped = <<>> /\ found = 0 /\ last_update = 0
    /\ lbl_count = 0 /\ lbl_path = <<>>
    /\ stack = <<>>
    /\ outfile = <<>> /\ logfile = <<>> /\ messages = <<>>
    /\ faults = {} /\ entered = {} /\ listed = {} /\ fetched = {}
    /\ atCancel = [set |-> FALSE]

----------------------------------------------------------------------------
\* do_cancel, lines 268-270: the Cancel button of the progress window.  The
\* button exists from line 272 until the window is destroyed after the scan.
do_cancel ==
    /\ pc \in {"start", "scan"}
    /\ ~cancel
    /\ cancel' = TRUE
    /\ lbl_path' = <<"Cancelling...">>
    /\ atCancel' = [set |-> TRUE, rows |-> Len(rows), skipped |-> Len(skipped),
                    found |-> found, entered |-> entered, listed |-> listed, fetched |-> fetched]
    /\ UNCHANGED <<config, pc, rows, skipped, found, last_update, lbl_count, stack,
                   outfile, logfile, messages, faults, entered, listed, fetched>>

\* scan_folders_with_progress up to its call of walk_dir: lines 145-154, 205
ScanStart ==
    /\ pc = "start"
    /\ pc' = "scan"
    /\ rows' = <<<<PathName(base)>>>>
    /\ skipped' = <<>>
    /\ found' = 1
    /\ last_update' = 0
    /\ lbl_count' = 1
    /\ lbl_path' = <<PathName(base)>>
    /\ stack' = <<[node |-> Root, dir_path |-> to_long_path(base, use_long_paths),
                   ancestors |-> <<PathName(base)>>, idx |-> 0, at |-> "enter"]>>
    /\ entered' = entered \cup {Root}
    /\ UNCHANGED <<config, cancel, outfile, logfile, messages, faults, listed, fetched,
                   atCancel>>

\* the reads of cancel_state["cancel"]
EntryCancelledNever == FALSE
EntryCancelled == cancel    \* line 158
LoopCancelledNever == FALSE
LoopCancelled == cancel     \* line 165

\* walk_dir, lines 158-159
Enter ==
    /\ pc = "scan" /\ Top.at = "enter"
    /\ IF EntryCancelled
       THEN Return /\ LabelsAfterReturn /\ UNCHANGED listed
       ELSE /\ stack' = SetTop([Top EXCEPT !.at = "scandir"])
            /\ listed' = listed \cup {Top.node}
            /\ UNCHANGED <<pc, lbl_count, lbl_path, last_update>>
    /\ UNCHANGED <<config, cancel, rows, skipped, found, outfile, logfile, messages,
                   faults, entered, fetched, atCancel>>

\* skipped.append((str(dir_path), reason)), lines 194-203
ListSkippedNothing(sk, dir_path, e) == sk
ListSkipped(sk, dir_path, e) == Append(sk, <<dir_path, ListReason(e)>>)

\* skipped.append((entry.path, reason)), lines 170-175
ProbeSkippedNothing(sk, entry_path, e) == sk
ProbeSkipped(sk, entry_path, e) == Append(sk, <<entry_path, ProbeReason(e)>>)

\* lines 162-163: os.scandir opens the listing
ScandirOk ==
    /\ pc = "scan" /\ Top.at = "scandir"
    /\ stack' = SetTop([Top EXCEPT !.at = "next"])
    /\ UNCHANGED <<config, pc, cancel, rows, skipped, found, last_update, lbl_count,
                   lbl_path, outfile, logfile, messages, hist>>

\* lines 162-163, 194-203: os.scandir raises OSError
ScandirFails ==
    /\ pc = "scan" /\ Top.at = "scandir"
    /\ FaultsLeft
    /\ \E e \in Errors :
          /\ skipped' = ListSkipped(skipped, Top.dir_path, e)
          /\ faults' = faults \cup {[node |-> Top.node, at |-> "open", idx |-> 0, err |-> e]}
    /\ Return /\ LabelsAfterReturn
    /\ UNCHANGED <<config, cancel, rows, found, outfile, logfile, messages, entered, listed, fetched, atCancel>>

\* lines 164-166: the iterator yields the next entry (or is exhausted), then
\* the loop body reads the cancel flag
NextEntry ==
    /\ pc = "scan" /\ Top.at = "next"
    /\ IF Top.idx = Len(Children(Top.node))
       THEN Return /\ LabelsAfterReturn /\ UNCHANGED fetched
       ELSE IF LoopCancelled
            THEN Return /\ LabelsAfterReturn /\ UNCHANGED fetched
            ELSE /\ stack' = SetTop([Top EXCEPT !.idx = @ + 1, !.at = "probe"])
                 /\ fetched' = fetched \cup {Children(Top.node)[Top.idx + 1]}
                 /\ UNCHANGED <<pc, lbl_count, lbl_path, last_update>>
    /\ UNCHANGED <<config, cancel, rows, skipped, found, outfile, logfile, messages, faults, entered, listed,
                   atCancel>>

\* line 164, 194-203: the iterator raises OSError instead of yielding
NextFails ==
    /\ pc = "scan" /\ Top.at = "next"
    /\ FaultsLeft
    /\ \E e \in Errors :
          /\ skipped' = ListSkipped(skipped, Top.dir_path, e)
          /\ faults' = faults \cup {[node |-> Top.node, at |-> "iter", idx |-> Top.idx, err |-> e]}
    /\ Return /\ LabelsAfterReturn
    /\ UNCHANGED <<config, cancel, rows, found, outfile, logfile, messages, entered, listed, fetched, atCancel>>

\* the entry the top frame is working on
Entry == Children(Top.node)[Top.idx]
ScanTarget == to_long_path(Top.dir_path, use_long_paths)   \* line 162

\* lines 167-169: entry.is_dir(follow_symlinks=False) answers
Probe ==
    /\ pc = "scan" /\ Top.at = "probe"
    /\ stack' = SetTop([Top EXCEPT !.at = IF Entry \in dirs THEN "append" ELSE "next"])
    /\ UNCHANGED <<config, pc, cancel, rows, skipped, found, last_update, lbl_count,
                   lbl_path, outfile, logfile, messages, hist>>

\* lines 167-176: entry.is_dir raises OSError
ProbeFails ==
    /\ pc = "scan" /\ Top.at = "probe"
    /\ FaultsLeft
    /\ \E e \in ProbeErrors :
          /\ skipped' = ProbeSkipped(skipped, EntryPath(ScanTarget, Entry), e)
          /\ faults' = faults \cup {[node |-> Entry, at |-> "probe", idx |-> 0, err |-> e]}
    /\ stack' = SetTop([Top EXCEPT !.at = "next"])
    /\ UNCHANGED <<config, pc, cancel, rows, found, last_update, lbl_count, lbl_path,
                   outfile, logfile, messages, entered, listed, fetched, atCancel>>

\* lines 178-188: the row is appended, the counter bumped, and the labels
\* refreshed when more than 50 ms passed since the last refresh
\* (last_update = 0 is the initial 0.0, which every clock reading exceeds)
AppendRow ==
    /\ pc = "scan" /\ Top.at = "append"
    /\ LET row == NewRow(Top.ancestors, Entry) IN
       /\ rows' = Append(rows, row)
       /\ found' = NextFound(found)
       /\ \E elapsed \in BOOLEAN :
             IF elapsed \/ last_update = 0
             THEN /\ lbl_count' = found'
                  /\ lbl_path' = Tail4(row)
                  /\ last_update' = 1
             ELSE UNCHANGED <<lbl_count, lbl_path, last_update>>
    /\ stack' = SetTop([Top EXCEPT !.at = "call"])
    /\ UNCHANGED <<config, pc, cancel, skipped, outfile, logfile, messages, hist>>

\* lines 190-191: walk_dir(Path(entry.path), row)
Call ==
    /\ pc = "scan" /\ Top.at = "call"
    /\ Depth < RecursionLimit
    /\ stack' = Append(SetTop([Top EXCEPT !.at = "next"]),
                       [node |-> Entry, dir_path |-> EntryPath(ScanTarget, Entry),
                        ancestors |-> NewRow(Top.ancestors, Entry), idx |-> 0,
                        at |-> "enter"])
    /\ entered' = entered \cup {Entry}
    /\ UNCHANGED <<config, pc, cancel, rows, skipped, found, last_update, lbl_count,
                   lbl_path, outfile, logfile, messages, faults, listed, fetched,
                   atCancel>>

\* what becomes of a RecursionError raised by the nested call
RecursionUncaught ==
    /\ stack' = <<>>
    /\ pc' = "scan_raised"
    /\ UNCHANGED skipped
RecursionCaught ==      \* lines 192-193
    /\ skipped' = Append(skipped, <<EntryPath(ScanTarget, Entry), RecursionReason>>)
    /\ stack' = SetTop([Top EXCEPT !.at = "next"])
    /\ UNCHANGED pc

\* lines 190-193: the nested call exceeds the interpreter's recursion limit
\* (in Path(entry.path) or on entering walk_dir); the calling frame catches it
CallTooDeep ==
    /\ pc = "scan" /\ Top.at = "call"
    /\ Depth >= RecursionLimit
    /\ RecursionCaught
    /\ faults' = faults \cup {[node |-> Entry, at |-> "recursion", idx |-> 0,
                               err |-> [has_winerror |-> FALSE, winerror |-> 0,
                                        errno |-> 0, msg |-> "recursion"]]}
    /\ UNCHANGED <<config, cancel, rows, found, last_update, lbl_count, lbl_path,
                   outfile, logfile, messages, entered, listed, fetched, atCancel>>

\* lines 178-193: in the deepest frame the interpreter allows, the row is
\* appended and the label refresh of line 185 (Python code of its own) exceeds
\* the recursion limit.  Line 185 is outside the try of line 190, so the
\* RecursionError leaves this walk_dir and is caught by the frame that called
\* it, which records the directory it was descending into and goes on.
RefreshTooDeep ==
    /\ pc = "scan" /\ Top.at = "append"
    /\ Depth = RecursionLimit /\ Depth > 1
    /\ rows' = Append(rows, NewRow(Top.ancestors, Entry))
    /\ found' = NextFound(found)
    /\ skipped' = Append(skipped, <<Top.dir_path, RecursionReason>>)
    /\ stack' = Pop
    /\ faults' = faults \cup {[node |-> Top.node, at |-> "recursion", idx |-> Top.idx,
                               err |-> [has_winerror |-> FALSE, winerror |-> 0,
                                        errno |-> 0, msg |-> "recursion"]]}
    /\ UNCHANGED <<config, pc, cancel, last_update, lbl_count, lbl_path, outfile,
                   logfile, messages, entered, listed, fetched, atCancel>>


----------------------------------------------------------------------------
\* main after the scan

\* out_path names the user can pick in the save dialog (line 230-241)
Suffixes == {".xlsx", ".CSV", ".txt"}

\* str.lower on a suffix
Lower(suffix) == IF suffix = ".CSV" THEN ".csv" ELSE suffix

\* line 286
NoDataSaved == cancel /\ Len(rows) <= 1

\* line 319
PartialNoteNever == FALSE
PartialNote == cancel

\* lines 292-298: the renderer and the path it writes to
SavedKind(suffix, have_openpyxl) ==
    IF Lower(suffix) = ".xlsx" /\ have_openpyxl THEN "xlsx" ELSE "csv"
SavedSuffix(suffix, have_openpyxl) ==
    IF Lower(suffix) = ".xlsx" /\ have_openpyxl THEN suffix
    ELSE IF Lower(suffix) = ".csv" THEN suffix ELSE ".csv"

\* write_excel / write_csv, lines 61-116: header Level1..LevelN and the padded rows
Rendered(rs) == [ncols |-> MaxLevels(rs), body |-> NormRows(rs)]

\* save_log, lines 119-127 (after the two heading lines)
LogLines(sk) == IF sk = <<>> THEN <<"No skipped folders.">> ELSE sk

\* lines 286-288
MainCanceled ==
    /\ pc = "scanned"
    /\ NoDataSaved
    /\ messages' = Append(messages, [kind |-> "info", title |-> "Canceled",
                                     text |-> "Scan canceled. No data saved."])
    /\ pc' = "exit"
    /\ UNCHANGED <<config, cancel, rows, skipped, found, last_update, lbl_count,
                   lbl_path, stack, outfile, logfile, hist>>

\* lines 290-298: the table is written
SaveOutput ==
    /\ pc = "scanned"
    /\ ~NoDataSaved
    /\ \E suffix \in Suffixes, have_openpyxl \in BOOLEAN :
          outfile' = <<[kind |-> SavedKind(suffix, have_openpyxl),
                        suffix |-> SavedSuffix(suffix, have_openpyxl),
                        table |-> Rendered(rows)]>>
    /\ pc' = "saved"
    /\ UNCHANGED <<config, cancel, rows, skipped, found, last_update, lbl_count,
                   lbl_path, stack, logfile, messages, hist>>

\* lines 290-301: writing the table raises; main reports it and re-raises
SaveFails ==
    /\ pc = "scanned"
    /\ ~NoDataSaved
    /\ messages' = Append(messages, [kind |-> "error", title |-> "Error",
                                     text |-> "Failed to save output"])
    /\ pc' = "raised"
    /\ UNCHANGED <<config, cancel, rows, skipped, found, last_update, lbl_count,
                   lbl_path, stack, outfile, logfile, hist>>

\* lines 311-321: the final message box
Summary(log_written) ==
    [kind |-> "info", title |-> "Done",
     found_count |-> Len(rows), skipped_count |-> Len(skipped),
     log |-> log_written, common_reasons |-> Len(skipped) > 0,
     partial |-> PartialNote]

\* lines 303-321: the log is written (or a warning shown) and the summary shown
Finish ==
    /\ pc = "saved"
    /\ \E log_ok \in BOOLEAN :
          IF log_ok
          THEN /\ logfile' = <<LogLines(skipped)>>
               /\ messages' = Append(messages, Summary(TRUE))
          ELSE /\ logfile' = logfile
               /\ messages' = messages \o
                     <<[kind |-> "warning", title |-> "Log",
                        text |-> "Could not write log file"], Summary(FALSE)>>
    /\ pc' = "exit"
    /\ UNCHANGED <<config, cancel, rows, skipped, found, last_update, lbl_count,
                   lbl_path, stack, outfile, hist>>

Next ==
    \/ do_cancel
    \/ ScanStart
    \/ Enter
    \/ ScandirOk
    \/ ScandirFails
    \/ NextEntry
    \/ NextFails
    \/ Probe
    \/ ProbeFails
    \/ AppendRow
    \/ Call
    \/ CallTooDeep
    \/ RefreshTooDeep
    \/ MainCanceled
    \/ SaveOutput
    \/ SaveFails
    \/ Finish

Spec == Init /\ [][Next]_vars

TypeOK ==
    /\ pc \in {"start", "scan", "scanned", "saved", "exit", "raised", "scan_raised"}
    /\ (pc = "scan") = (stack # <<>>)
    /\ found \in Nat


----------------------------------------------------------------------------
\* Vocabulary of the properties

RECURSIVE RowOf(_)
\* the Row of node n: the names from the scan root down to n
RowOf(n) == IF n = Root THEN <<PathName(base)>> ELSE Append(RowOf(Parent(n)), n)

RECURSIVE NodePath(_)
\* the path under which the scan knows node n (dir_path / entry.path)
NodePath(n) ==
    IF n = Root THEN to_long_path(base, use_long_paths)
    ELSE EntryPath(to_long_path(NodePath(Parent(n)), use_long_paths), n)

RECURSIVE IsBelow(_, _)
\* n lies strictly below d
IsBelow(n, d) == n # Root /\ (Parent(n) = d \/ IsBelow(Parent(n), d))

Descendants(d) == {n \in Nodes : IsBelow(n, d)}

\* positions of the SkippedEntries recorded for node n
SkippedFor(n) == {i \in DOMAIN skipped : skipped[i][1] = NodePath(n)}

HasRow(n) == RowOf(n) \in Range(rows)

\* depth of the deepest directory of the tree (the root has depth 0)
TreeDepth == Max({Len(RowOf(d)) - 1 : d \in dirs})

OSFaults == {f \in faults : f.at # "recursion"}
ListingFaults == {f \in faults : f.at \in {"open", "iter"}}

\* scan_folders_with_progress has returned (rows, skipped)
Returned == pc \in {"scanned", "saved", "exit", "raised"}

SummaryShown ==
    /\ messages # <<>>
    /\ messages[Len(messages)].title = "Done"
TheSummary == messages[Len(messages)]

\* position of entry n in its parent's listing
PosOf(n) == CHOOSE i \in DOMAIN Children(Parent(n)) : Children(Parent(n))[i] = n

\* siblings that the parent's listing yields after n
LaterSiblings(n) ==
    {Children(Parent(n))[i] : i \in (PosOf(n) + 1)..Len(Children(Parent(n)))}


----------------------------------------------------------------------------
\* C1 as stated: after a scan with no probe or listing failure and no
\* cancellation, the number of rows is 1 + the number of directories below the
\* root, and equals found and the count the summary reports.
C1_RowCount ==
    (Returned /\ ~cancel /\ OSFaults = {}) =>
        /\ Len(rows) = 1 + Cardinality(dirs \ {Root})
        /\ found = Len(rows)
        /\ (SummaryShown => TheSummary.found_count = Len(rows))

\* C1 amended: the same, for scans in which, in addition, no descent exceeded
\* the recursion limit.
C1_RowCountWithinDepth ==
    (Returned /\ ~cancel /\ faults = {}) =>
        /\ Len(rows) = 1 + Cardinality(dirs \ {Root})
        /\ found = Len(rows)
        /\ (SummaryShown => TheSummary.found_count = Len(rows))

\* a fault-free, uncancelled scan of a tree with three directories below the
\* root has reported its summary
C1_Witness ==
    /\ pc = "exit" /\ ~cancel /\ faults = {}
    /\ SummaryShown
    /\ Len(rows) = 4

----------------------------------------------------------------------------
\* C2: an entry whose is_dir probe raised OSError has exactly one
\* SkippedEntry, no Row, is not descended into (nor is anything below it
\* reached), and the loop goes on with its siblings: unless the scan is
\* cancelled or the parent directory itself is given up (its listing fails, or
\* its walk_dir is left by a RecursionError), every later sibling is fetched by
\* the time the scan returns.
C2_ProbeFailure ==
    \A f \in faults : f.at = "probe" =>
        /\ Cardinality(SkippedFor(f.node)) = 1
        /\ \A i \in SkippedFor(f.node) : skipped[i][2] = ProbeReason(f.err)
        /\ ~HasRow(f.node)
        /\ f.node \notin entered
        /\ \A d \in Descendants(f.node) : d \notin fetched /\ ~HasRow(d)
        /\ (/\ Returned
            /\ ~cancel
            /\ ~\E g \in faults : g.at # "probe" /\ g.node = Parent(f.node))
           => LaterSiblings(f.node) \subseteq fetched

\* the probe of B failed, and its sibling C was still recorded
C2_Witness ==
    /\ Returned
    /\ \E f \in faults : f.at = "probe" /\ f.node = "B"
    /\ "B" \in dirs
    /\ HasRow("C")

----------------------------------------------------------------------------
\* what "not visited" means for node n
Untouched(n) == ~HasRow(n) /\ n \notin entered /\ n \notin fetched /\ SkippedFor(n) = {}

\* C3 as stated: a directory whose listing failed (on opening or while
\* iterating) has exactly one SkippedEntry, its children have none, and no
\* descendant has a Row or was descended into.
C3_ListingFailure ==
    \A f \in ListingFaults :
        /\ Cardinality(SkippedFor(f.node)) = 1
        /\ \A i \in DOMAIN Children(f.node) : SkippedFor(Children(f.node)[i]) = {}
        /\ \A d \in Descendants(f.node) : ~HasRow(d) /\ d \notin entered

\* C3 amended: a directory whose listing failed has exactly one SkippedEntry,
\* classified by the directory-level handler; the entries the listing had not
\* yet yielded when it failed (all of them when it failed on opening), and
\* everything below them, are not touched.  Entries yielded before the failure
\* keep their rows, skip entries and subtrees.
C3_ListingFailureFromThere ==
    \A f \in ListingFaults :
        /\ Cardinality(SkippedFor(f.node)) = 1
        /\ \A i \in SkippedFor(f.node) : skipped[i][2] = ListReason(f.err)
        /\ \A i \in (f.idx + 1)..Len(Children(f.node)) :
              LET c == Children(f.node)[i] IN
              /\ Untouched(c)
              /\ \A d \in Descendants(c) : Untouched(d)

\* a listing failed while a directory among its entries was still to come
C3_Witness ==
    /\ Returned
    /\ \E f \in ListingFaults :
          \E i \in (f.idx + 1)..Len(Children(f.node)) : Children(f.node)[i] \in dirs


----------------------------------------------------------------------------
\* the node a Row / SkippedEntry was recorded for
NodesOfRowsAfter(k) == {n \in Nodes : \E i \in (k + 1)..Len(rows) : rows[i] = RowOf(n)}
NodesOfSkippedAfter(k) ==
    {n \in Nodes : \E i \in (k + 1)..Len(skipped) : skipped[i][1] = NodePath(n)}

\* nodes the scan had started on when the flag was set: the root, the entries
\* already fetched by a loop (past line 165) and the directories whose
\* walk_dir was past line 158
StartedAtCancel == {Root} \cup atCancel.fetched \cup atCancel.listed

\* once the flag is true, no further entry is fetched and no further directory
\* is listed, and nothing is appended for a node the scan had not started on
C4_NothingNew ==
    cancel =>
        /\ fetched = atCancel.fetched
        /\ listed = atCancel.listed
        /\ NodesOfRowsAfter(atCancel.rows) \subseteq StartedAtCancel
        /\ NodesOfSkippedAfter(atCancel.skipped) \subseteq StartedAtCancel
        /\ \A i \in (atCancel.rows + 1)..Len(rows) : \E n \in Nodes : rows[i] = RowOf(n)
        /\ \A i \in (atCancel.skipped + 1)..Len(skipped) :
              \E n \in Nodes : skipped[i][1] = NodePath(n)

\* B's row was in rows when the flag was set
BRowAtCancel == \E i \in 1..atCancel.rows : rows[i] = RowOf("B")

\* C4 as stated: nothing new for a subtree not yet visited, and with the flag
\* set after B's row was appended and before walk_dir was called for C, the
\* rows hold [A] and [A,B] and never [A,C].
C4_CancelBeforeDescent ==
    /\ C4_NothingNew
    /\ (cancel /\ BRowAtCancel /\ "C" \notin atCancel.entered) =>
          /\ HasRow("A") /\ HasRow("B")
          /\ ~HasRow("C")

\* C4 amended: nothing new for a subtree not yet visited, and with the flag
\* set after B's row was appended and before the loop's cancel check for entry
\* C (line 165) passed, the rows hold [A] and [A,B] and never [A,C].
C4_CancelBeforeFetch ==
    /\ C4_NothingNew
    /\ (cancel /\ BRowAtCancel /\ "C" \notin atCancel.fetched) =>
          /\ HasRow("A") /\ HasRow("B")
          /\ ~HasRow("C")

\* the flag was set after B's row and before C was fetched, C being a
\* directory, and the scan has returned
C4_Witness ==
    /\ Returned /\ cancel
    /\ BRowAtCancel
    /\ "C" \notin atCancel.fetched
    /\ "C" \in dirs
    /\ HasRow("B")

----------------------------------------------------------------------------
Saved == outfile # <<>> /\ outfile[1].table = Rendered(rows)

\* C5 as stated: main returning after a scan that returned with the flag set
\* has saved the rows and shown a summary with the partial-results note; with
\* the flag not set the summary has no such note.
C5_CancelledIsPartial ==
    pc = "exit" =>
        /\ cancel => (Saved /\ SummaryShown /\ TheSummary.partial)
        /\ ~cancel => (SummaryShown /\ ~TheSummary.partial)

\* C5 amended: with the flag set and more than the root's row collected, main
\* saves the rows and (unless writing the output fails, which it reports and
\* re-raises) shows a summary with the partial-results note; with the flag set
\* and only the root's row, it saves nothing and shows "Scan canceled. No data
\* saved."; with the flag not set the summary has no such note.
C5_CancelledIsPartialOrNothing ==
    /\ (pc \in {"saved", "exit"} /\ cancel /\ Len(rows) > 1) => Saved
    /\ pc = "exit" =>
        /\ (cancel /\ Len(rows) > 1) => (SummaryShown /\ TheSummary.partial)
        /\ (cancel /\ Len(rows) <= 1) =>
              /\ outfile = <<>> /\ logfile = <<>>
              /\ messages = <<[kind |-> "info", title |-> "Canceled",
                               text |-> "Scan canceled. No data saved."]>>
        /\ ~cancel => (Saved /\ SummaryShown /\ ~TheSummary.partial)
    /\ (pc = "raised") => (outfile = <<>> /\ ~SummaryShown)

\* a cancelled scan with several rows was saved and summarised as partial
C5_Witness ==
    /\ pc = "exit" /\ cancel
    /\ Len(rows) > 1
    /\ Saved /\ SummaryShown /\ TheSummary.partial

----------------------------------------------------------------------------
\* C6: a RecursionError raised by a nested walk_dir call is caught by the
\* calling frame: exactly one SkippedEntry, with the recursion reason, is
\* recorded for the subtree (whose own Row stays), the scan never ends by an
\* exception, and the loops of the enclosing directories go on: in a scan that
\* returned without cancellation or OS fault, every entry of every listed
\* directory that was not itself given up was fetched.
C6_RecursionCaught ==
    /\ pc # "scan_raised"
    /\ \A f \in faults : f.at = "recursion" =>
          /\ Cardinality(SkippedFor(f.node)) = 1
          /\ \A i \in SkippedFor(f.node) : skipped[i][2] = RecursionReason
          /\ HasRow(f.node)
          /\ f.node \notin Range([k \in DOMAIN stack |-> stack[k].node])
          /\ \A d \in Descendants(f.node) : d \notin Range([k \in DOMAIN stack |-> stack[k].node])
    /\ (Returned /\ ~cancel /\ OSFaults = {}) =>
          \A d \in listed :
              (\A f \in faults : f.node # d) => Range(Children(d)) \subseteq fetched

\* a descent was too deep, and afterwards the sibling C of an enclosing
\* directory was still recorded, and the scan returned
C6_Witness ==
    /\ pc = "scanned"
    /\ \E f \in faults : f.at = "recursion"
    /\ Len(skipped) >= 1
    /\ rows[Len(rows)] = RowOf("C")

----------------------------------------------------------------------------
\* the class the four-way taxonomy gives an OSError
TaxonomyClass(e) ==
    IF e.has_winerror /\ e.winerror = WINERROR_PATH_NOT_FOUND THEN "PathNotFound"
    ELSE IF e.errno = ENOENT THEN "NoSuchEntry"
    ELSE IF e.errno = EACCES THEN "PermissionDenied"
    ELSE "Raw"

\* the class a recorded reason belongs to, whatever handler wrote it
ReasonClass(reason) ==
    IF reason = WinError3Reason THEN "PathNotFound"
    ELSE IF reason = <<"ENOENT (no such file or directory)">> THEN "NoSuchEntry"
    ELSE IF reason = <<"EACCES (permission denied)">> THEN "PermissionDenied"
    ELSE "Raw"

\* C7: every SkippedEntry recorded for an OS failure, from a probe or from a
\* listing, carries the reason the one four-way taxonomy gives its error
\* (path-vanished, does-not-exist, permission-denied, and only otherwise the
\* raw message), and each fault is recorded exactly once.
C7_OneTaxonomy ==
    \A f \in OSFaults :
        /\ Cardinality(SkippedFor(f.node)) = 1
        /\ \A i \in SkippedFor(f.node) :
              /\ ReasonClass(skipped[i][2]) = TaxonomyClass(f.err)
              /\ TaxonomyClass(f.err) = "Raw" => skipped[i][2][2] = f.err.msg

----------------------------------------------------------------------------
\* the scenario: the tree, the single fault, no cancellation, scan returned
C8_Precondition ==
    /\ Returned /\ ~cancel
    /\ dirs = {"A", "B", "C", "D"}
    /\ Cardinality(faults) = 1
    /\ \E f \in faults : f.node = "C" /\ f.at = "open" /\ f.err.errno = EACCES

\* C8: root A with directories B and C, B holding D, C not listable
\* (permission denied), no cancellation: the rows are exactly [A], [A,B],
\* [A,B,D], [A,C], skipped holds one entry, for a path ending in C with the
\* permission-denied reason, and found is 4.
C8_Scenario ==
    C8_Precondition =>
        /\ rows = << <<"A">>, <<"A", "B">>, <<"A", "B", "D">>, <<"A", "C">> >>
        /\ Len(skipped) = 1
        /\ PathName(skipped[1][1]) = "C"
        /\ skipped[1][2] = <<"EACCES (permission denied)">>
        /\ found = 4

\* the scenario has run to its end
C8_Witness == C8_Precondition /\ pc = "exit"

----------------------------------------------------------------------------
\* C9: in every state, every Row starts with the root's name and is no longer
\* than the depth of the tree plus one.
C9_RowShape ==
    \A i \in DOMAIN rows :
        /\ rows[i][1] = PathName(base)
        /\ Len(rows[i]) <= TreeDepth + 1

\* rows down to the deepest directory, in a scan that met a fault and was
\* cancelled
C9_Witness ==
    /\ cancel /\ OSFaults # {}
    /\ TreeDepth >= 2
    /\ \E i \in DOMAIN rows : Len(rows[i]) = TreeDepth + 1

----------------------------------------------------------------------------
\* C10: from the moment the flag is true, at most one more Row is appended
\* and found grows by at most one.
C10_AtMostOneMore ==
    cancel =>
        /\ Len(rows) <= atCancel.rows + 1
        /\ found <= atCancel.found + 1

\* the flag was set during the walk, one more row followed, and the scan returned
C10_Witness ==
    /\ Returned /\ cancel
    /\ atCancel.rows >= 2
    /\ Len(rows) = atCancel.rows + 1
    /\ found = atCancel.found + 1


====
